---- MODULE Spec2Model ----
(***************************************************************************)
(* Model of template-react-tailwind/src/App.tsx: the App component's state *)
(* (data, isLoading, error, currentPath), its effects (manifest fetch,     *)
(* popstate listener), handleNavigate, the render function, Layout's click *)
(* handlers, slugToPath and renderSection, together with the browser's     *)
(* session history that pushState / popstate act on.                       *)
(*                                                                         *)
(* JavaScript strings that the code inspects character by character (slugs *)
(* and paths) are sequences of one-character strings; strings that are     *)
(* only compared or displayed (section types, headings, messages) are TLA+ *)
(* strings.                                                                *)
(***************************************************************************)
EXTENDS Integers, Sequences, FiniteSets, TLC

VARIABLES
    manifestUrl,   \* BOOLEAN: whether VITE_MANIFEST_URL is configured
    data,          \* useState: Null or the stored manifest
    isLoading,     \* useState: BOOLEAN
    error,         \* useState: NoError or the message
    currentPath,   \* useState: path string
    mounted,       \* whether the effects of the first commit have run
    promise,       \* position in the fetch(...).then.then.catch.finally chain
    res,           \* what the network delivered for the fetch
    fetchCount,    \* number of fetch(manifestUrl) calls issued
    history,       \* browser session history: sequence of entry paths
    idx,           \* index of the current session-history entry
    lastEvent,     \* the last user/browser event handled, with its argument
    arg,           \* input of the pure function under study
    result         \* its output

vars == <<manifestUrl, data, isLoading, error, currentPath, mounted, promise,
          res, fetchCount, history, idx, lastEvent, arg, result>>

appVars == <<manifestUrl, data, isLoading, error, currentPath, mounted,
             promise, res, fetchCount, history, idx, lastEvent>>

-----------------------------------------------------------------------------
(* Bounds *)

MaxSlugLen == 4
MaxPages == 2
MaxHistory == 3

-----------------------------------------------------------------------------
(* Strings as character sequences *)

Root == <<"/">>
Home == <<"h", "o", "m", "e">>
About == <<"a", "b", "o", "u", "t">>
SlashAbout == <<"/">> \o About
SlashSlashAbout == <<"/", "/">> \o About
SlashMissing == <<"/", "m", "i", "s", "s", "i", "n", "g">>

StartsWithSlash(s) == s # <<>> /\ Head(s) = "/"

StartsWithDoubleSlash(s) == Len(s) >= 2 /\ s[1] = "/" /\ s[2] = "/"

\* slug.replace(/^\//, ''): removes one leading "/" when there is one
ReplaceLeadingSlash(s) == IF StartsWithSlash(s) THEN Tail(s) ELSE s

\* slugToPath without the prefix: the slug with its leading "/" removed
slugToPathNoPrefix(slug) ==
    IF slug = <<>> \/ slug = Root \/ slug = Home THEN Root
    ELSE ReplaceLeadingSlash(slug)

slugToPath(slug) ==
    IF slug = <<>> \/ slug = Root \/ slug = Home THEN Root
    ELSE Root \o ReplaceLeadingSlash(slug)

\* x || '/' on a string
OrRoot(s) == IF s = <<>> THEN Root ELSE s

-----------------------------------------------------------------------------
(* Section dispatch *)

Absent == [present |-> FALSE, value |-> ""]
Some(v) == [present |-> TRUE, value |-> v]

\* x ?? '' on an optional string
OrEmpty(opt) == IF opt.present THEN opt.value ELSE ""

\* {x && <el>{x}</el>}: the element is emitted for a present, non-empty string
Truthy(opt) == opt.present /\ opt.value # ""

Element(tag, text) == [tag |-> tag, text |-> text]

OptionalElement(tag, opt) ==
    IF Truthy(opt) THEN <<Element(tag, opt.value)>> ELSE <<>>

Nothing == [component |-> "null", children |-> <<>>]

Hero(heading, body) ==
    [component |-> "Hero",
     children |-> <<Element("h1", heading), Element("p", body)>>]

TextBlock(heading, body) ==
    [component |-> "TextBlock",
     children |-> OptionalElement("h2", heading)
                    \o OptionalElement("p.pre-line", body)]

ImageBlock(heading, body) ==
    [component |-> "ImageBlock",
     children |-> OptionalElement("h2", heading) \o OptionalElement("p", body)
                    \o <<Element("div", "Image placeholder")>>]

GenericSection(type, heading, body) ==
    [component |-> "GenericSection",
     children |-> <<Element("div.label", type)>>
                    \o OptionalElement("h2", heading)
                    \o OptionalElement("p.pre-line", body)]

\* renderSection matching the hero tag without regard to case or trailing
\* blanks
renderSectionLoose(section) ==
    IF section.type \in {"hero", "Hero", "hero "}
        THEN Hero(OrEmpty(section.heading), OrEmpty(section.body))
    ELSE IF section.type \in {"text-block", "content-block"}
        THEN TextBlock(section.heading, section.body)
    ELSE IF section.type = "image-block"
        THEN ImageBlock(section.heading, section.body)
    ELSE IF section.type \in {"profile-row", "testimonial", "faq", "contact-form"}
        THEN GenericSection(section.type, section.heading, section.body)
    ELSE Nothing

renderSection(section) ==
    CASE section.type = "hero" ->
            Hero(OrEmpty(section.heading), OrEmpty(section.body))
      [] section.type \in {"text-block", "content-block"} ->
            TextBlock(section.heading, section.body)
      [] section.type = "image-block" ->
            ImageBlock(section.heading, section.body)
      [] section.type \in {"profile-row", "testimonial", "faq", "contact-form"} ->
            GenericSection(section.type, section.heading, section.body)
      [] OTHER -> Nothing

SectionRenderer(section) == renderSection(section)

-----------------------------------------------------------------------------
(* Manifests *)

Null == [kind |-> "null"]

NoError == "<null>"

FetchFailedMessage == "Failed to load site configuration."

Section(type, heading, body) ==
    [type |-> type, heading |-> heading, body |-> body]

\* The sections of the page at position i of a manifest; every position has
\* its own list, so the rendered blocks tell which page was selected.
PageSections(i) ==
    IF i = 1 THEN <<Section("hero", Some("Welcome"), Absent),
                    Section("unknown-future-type", Some("x"), Some("y")),
                    Section("text-block", Absent, Some("Hi"))>>
    ELSE IF i = 2 THEN <<Section("image-block", Some("Pic"), Some("")),
                         Section("faq", Some("Q"), Some("A"))>>
    ELSE [k \in 1..i |-> Section("testimonial", Absent, Some("T"))]

PageSlugs == {Home, About, SlashAbout}

SlugLists == UNION {[1..n -> PageSlugs] : n \in 0..MaxPages}

PagesOf(slugs) ==
    [i \in 1..Len(slugs) |-> [slug |-> slugs[i], sections |-> PageSections(i)]]

NoFooter == [present |-> FALSE, links |-> <<>>]

\* manifest.nav.links and manifest.footer as the two shapes used here: a
\* site with nav links and footer links, and one with neither.
LinkConfigs ==
    {[nav |-> <<Home, About>>,
      footer |-> [present |-> TRUE, links |-> <<SlashAbout, SlashSlashAbout>>]],
     [nav |-> <<>>, footer |-> NoFooter]}

Manifests ==
    {[kind |-> "manifest", pages |-> PagesOf(sl), nav |-> lc.nav,
      footer |-> lc.footer] : sl \in SlugLists, lc \in LinkConfigs}

-----------------------------------------------------------------------------
(* The network's answers to fetch(manifestUrl) *)

NotJson == [json |-> FALSE, value |-> Null]

JsonBody(m) == [json |-> TRUE, value |-> m]

Bodies == {NotJson} \cup {JsonBody(m) : m \in Manifests}

Statuses == {200, 500}

NoResponse == [kind |-> "none", status |-> 0, body |-> NotJson]

NetworkError == [kind |-> "network-error", status |-> 0, body |-> NotJson]

Responses ==
    {NetworkError}
        \cup {[kind |-> "response", status |-> st, body |-> b] :
                st \in Statuses, b \in Bodies}

-----------------------------------------------------------------------------
(* Browser session history *)

InitPaths == {Root, SlashMissing}

InitHistories == UNION {[1..n -> InitPaths] : n \in 1..2}

\* window.location.pathname of the current entry
LocationPathname(h, i) == h[i]

\* pushState(url) throws a SecurityError when url does not resolve to the
\* document's origin: a url beginning "//" is scheme-relative and names
\* another host.
PushStateThrows(url) == StartsWithDoubleSlash(url)

\* pushState: entries after the current one are dropped, one entry is added
\* and becomes current
PushState(url) ==
    /\ history' = SubSeq(history, 1, idx) \o <<url>>
    /\ idx' = idx + 1

-----------------------------------------------------------------------------
(* Render *)

\* pages.find(pred) with the search running from the end: 0 for undefined
RECURSIVE FindLast(_, _, _)
FindLast(pages, path, i) ==
    IF i < 1 THEN 0
    ELSE IF slugToPath(pages[i].slug) = path THEN i
    ELSE FindLast(pages, path, i - 1)

\* pages.find((page) => slugToPath(page.slug) === path), as the index of the
\* page found, 0 for undefined
RECURSIVE Find(_, _, _)
Find(pages, path, i) ==
    IF i > Len(pages) THEN 0
    ELSE IF slugToPath(pages[i].slug) = path THEN i
    ELSE Find(pages, path, i + 1)

\* currentPage with the search running from the end
CurrentPageLast(pages, path) ==
    IF Len(pages) > 0
        THEN (IF FindLast(pages, path, Len(pages)) # 0
                THEN FindLast(pages, path, Len(pages)) ELSE 1)
    ELSE 0

\* currentPage: index of the page, 0 for undefined
CurrentPage(pages, path) ==
    IF Len(pages) > 0
        THEN (IF Find(pages, path, 1) # 0 THEN Find(pages, path, 1) ELSE 1)
    ELSE 0

Message(text) == [kind |-> "message", text |-> text, blocks |-> <<>>]

Children(pages, path) ==
    LET hasPages == Len(pages) > 0
        cp == CurrentPage(pages, path)
    IN  IF cp # 0
            THEN [kind |-> "sections", text |-> "",
                  blocks |-> [k \in 1..Len(pages[cp].sections) |->
                                SectionRenderer(pages[cp].sections[k])]]
        ELSE IF hasPages THEN Message("Page not found")
        ELSE Message("No pages defined in manifest")

Layout(navLinks, footer, path, children) ==
    [kind |-> "Layout",
     text |-> "",
     nav |-> [k \in 1..Len(navLinks) |->
                [path |-> slugToPath(navLinks[k]),
                 isActive |-> slugToPath(navLinks[k]) = path]],
     footer |-> footer.present,
     footerLinks |-> IF footer.present THEN footer.links ELSE <<>>,
     children |-> children]

Plain(kind, text) == [kind |-> kind, text |-> text]

Render ==
    IF ~manifestUrl THEN Plain("MissingUrl", "Missing VITE_MANIFEST_URL")
    ELSE IF isLoading /\ data = Null THEN Plain("Loading", "Loading...")
    ELSE IF error # NoError /\ data = Null THEN Plain("Error", error)
    ELSE IF data = Null THEN Plain("NoData", "No manifest data")
    ELSE Layout(data.nav, data.footer, currentPath,
                Children(data.pages, currentPath))

-----------------------------------------------------------------------------
(* Initial state: the component after its first render, before its effects *)

\* op: the handler that ran; arg: the path handleNavigate was called with;
\* outcome: the branch handleNavigate took; tick: flips with every event
NoEvent == [op |-> "none", arg |-> <<>>, outcome |-> "none", tick |-> 0]

Event(op, path, outcome) ==
    [op |-> op, arg |-> path, outcome |-> outcome, tick |-> 1 - lastEvent.tick]

NoCall == [done |-> FALSE, value |-> <<>>]

AppInit ==
    /\ manifestUrl \in BOOLEAN
    /\ data = Null
    /\ isLoading = FALSE
    /\ error = NoError
    /\ history \in InitHistories
    /\ idx \in 1..Len(history)
    /\ currentPath = OrRoot(LocationPathname(history, idx))
    /\ mounted = FALSE
    /\ promise = "none"
    /\ res = NoResponse
    /\ fetchCount = 0
    /\ lastEvent = NoEvent

Init ==
    /\ AppInit
    /\ arg = NoCall
    /\ result = NoCall

-----------------------------------------------------------------------------
(* Effects of the first commit *)

\* the fetch effect without its `if (!manifestUrl) return`
FetchEffectNoGuard ==
    /\ isLoading' = TRUE
    /\ error' = NoError
    /\ fetchCount' = fetchCount + 1
    /\ promise' = "pending"

FetchEffect ==
    IF ~manifestUrl
        THEN UNCHANGED <<isLoading, error, fetchCount, promise>>
    ELSE /\ isLoading' = TRUE
         /\ error' = NoError
         /\ fetchCount' = fetchCount + 1
         /\ promise' = "pending"

\* Both mount effects run after the first commit: the fetch effect, and the
\* effect that registers handlePopState (from then on popstate is handled).
Mount ==
    /\ ~mounted
    /\ mounted' = TRUE
    /\ FetchEffect
    /\ UNCHANGED <<manifestUrl, data, currentPath, res, history, idx,
                   lastEvent, arg, result>>

-----------------------------------------------------------------------------
(* The promise chain fetch(url).then(json).then(setData).catch().finally() *)

\* the network settles the fetch: a response of any status fulfils it, a
\* network error rejects it
NetworkResponds(r) ==
    /\ promise = "pending"
    /\ res' = r
    /\ promise' = IF r.kind = "network-error" THEN "rejected" ELSE "response"
    /\ UNCHANGED <<manifestUrl, data, isLoading, error, currentPath, mounted,
                   fetchCount, history, idx, lastEvent, arg, result>>

\* (res) => res.json(): rejects when the body is not JSON
ResJson ==
    /\ promise = "response"
    /\ promise' = IF res.body.json THEN "json" ELSE "rejected"
    /\ UNCHANGED <<manifestUrl, data, isLoading, error, currentPath, mounted,
                   res, fetchCount, history, idx, lastEvent, arg, result>>

\* (json) => setData(json)
ThenSetData ==
    /\ promise = "json"
    /\ data' = res.body.value
    /\ promise' = "finally"
    /\ UNCHANGED <<manifestUrl, isLoading, error, currentPath, mounted, res,
                   fetchCount, history, idx, lastEvent, arg, result>>

\* the catch handler starting the fetch again
CatchHandlerRetry ==
    /\ promise = "rejected"
    /\ fetchCount < 3
    /\ fetchCount' = fetchCount + 1
    /\ promise' = "pending"
    /\ UNCHANGED <<manifestUrl, data, isLoading, error, currentPath, mounted,
                   res, history, idx, lastEvent, arg, result>>

\* (err) => setError('Failed to load site configuration.')
CatchHandler ==
    /\ promise = "rejected"
    /\ error' = FetchFailedMessage
    /\ promise' = "finally"
    /\ UNCHANGED <<manifestUrl, data, isLoading, currentPath, mounted, res,
                   fetchCount, history, idx, lastEvent, arg, result>>

\* () => setIsLoading(false)
FinallyHandler ==
    /\ promise = "finally"
    /\ isLoading' = FALSE
    /\ promise' = "settled"
    /\ UNCHANGED <<manifestUrl, data, error, currentPath, mounted, res,
                   fetchCount, history, idx, lastEvent, arg, result>>

-----------------------------------------------------------------------------
(* Browser back / forward *)

\* setCurrentPath(window.location.pathname || '/'), run once the listener is
\* registered; before that the traversal goes unobserved
handlePopState ==
    IF mounted
        THEN /\ currentPath' = OrRoot(LocationPathname(history', idx'))
             /\ lastEvent' = Event("popstate", <<>>, "none")
    ELSE UNCHANGED <<currentPath, lastEvent>>

Back ==
    /\ idx > 1
    /\ idx' = idx - 1
    /\ history' = history
    /\ handlePopState
    /\ UNCHANGED <<manifestUrl, data, isLoading, error, mounted, promise, res,
                   fetchCount, arg, result>>

Forward ==
    /\ idx < Len(history)
    /\ idx' = idx + 1
    /\ history' = history
    /\ handlePopState
    /\ UNCHANGED <<manifestUrl, data, isLoading, error, mounted, promise, res,
                   fetchCount, arg, result>>

-----------------------------------------------------------------------------
(* Navigation from the rendered Layout *)

\* handleNavigate without its equality check
handleNavigateNoCheck(path) ==
    LET normalized == OrRoot(path)
    IN  IF PushStateThrows(normalized)
            THEN /\ lastEvent' = Event("navigate", path, "threw")
                 /\ UNCHANGED <<history, idx, currentPath>>
        ELSE /\ lastEvent' = Event("navigate", path, "pushed")
             /\ PushState(normalized)
             /\ currentPath' = normalized

handleNavigate(path) ==
    LET normalized == OrRoot(path)
    IN  IF normalized = currentPath
            THEN /\ lastEvent' = Event("navigate", path, "same")
                 /\ UNCHANGED <<history, idx, currentPath>>
        ELSE IF PushStateThrows(normalized)
            \* the exception leaves the handler before setCurrentPath
            THEN /\ lastEvent' = Event("navigate", path, "threw")
                 /\ UNCHANGED <<history, idx, currentPath>>
        ELSE /\ lastEvent' = Event("navigate", path, "pushed")
             /\ PushState(normalized)
             /\ currentPath' = normalized

\* Layout's handleClick
handleClick(slug) == handleNavigate(slugToPath(slug))

\* keeps the session history within MaxHistory entries
CanNavigate(path) == idx < MaxHistory \/ OrRoot(path) = currentPath

ClickSiteName ==
    /\ Render.kind = "Layout"
    /\ CanNavigate(Root)
    /\ handleNavigate(Root)
    /\ UNCHANGED <<manifestUrl, data, isLoading, error, mounted, promise, res,
                   fetchCount, arg, result>>

ClickNavLink ==
    /\ Render.kind = "Layout"
    /\ \E k \in DOMAIN data.nav :
          /\ CanNavigate(slugToPath(data.nav[k]))
          /\ handleClick(data.nav[k])
    /\ UNCHANGED <<manifestUrl, data, isLoading, error, mounted, promise, res,
                   fetchCount, arg, result>>

ClickFooterLink ==
    /\ Render.kind = "Layout"
    /\ data.footer.present
    /\ \E k \in DOMAIN data.footer.links :
          /\ CanNavigate(slugToPath(data.footer.links[k]))
          /\ handleClick(data.footer.links[k])
    /\ UNCHANGED <<manifestUrl, data, isLoading, error, mounted, promise, res,
                   fetchCount, arg, result>>

Next ==
    \/ Mount
    \/ \E r \in Responses : NetworkResponds(r)
    \/ ResJson
    \/ ThenSetData
    \/ CatchHandler
    \/ FinallyHandler
    \/ Back
    \/ Forward
    \/ ClickSiteName
    \/ ClickNavLink
    \/ ClickFooterLink

Spec == Init /\ [][Next]_vars

-----------------------------------------------------------------------------
(* slugToPath and renderSection on their own: the input is drawn in the    *)
(* initial state and one step applies the function                         *)

AppIdle ==
    /\ manifestUrl = FALSE
    /\ data = Null
    /\ isLoading = FALSE
    /\ error = NoError
    /\ history = <<Root>>
    /\ idx = 1
    /\ currentPath = Root
    /\ mounted = FALSE
    /\ promise = "none"
    /\ res = NoResponse
    /\ fetchCount = 0
    /\ lastEvent = NoEvent

Returned(v) == [done |-> TRUE, value |-> v]

SlugAlphabet == {"/", "h", "o", "m", "e"}

SlugStrings == UNION {[1..n -> SlugAlphabet] : n \in 0..MaxSlugLen}

SlugInit ==
    /\ AppIdle
    /\ arg \in SlugStrings
    /\ result = NoCall

ApplySlugToPath ==
    /\ ~result.done
    /\ result' = Returned(slugToPath(arg))
    /\ UNCHANGED <<appVars, arg>>

SpecSlug == SlugInit /\ [][ApplySlugToPath]_vars

KnownTypes ==
    {"hero", "text-block", "content-block", "image-block", "profile-row",
     "testimonial", "faq", "contact-form"}

SectionTypes ==
    KnownTypes \cup {"unknown-future-type", "Hero", "hero ", "text", "",
                     "image-block-2"}

Headings == {Absent, Some(""), Some("Welcome")}

SectionBodies == {Absent, Some(""), Some("Hi")}

SectionInputs ==
    {Section(t, h, b) : t \in SectionTypes, h \in Headings, b \in SectionBodies}

RenderInit ==
    /\ AppIdle
    /\ arg \in SectionInputs
    /\ result = NoCall

ApplyRenderSection ==
    /\ ~result.done
    /\ result' = Returned(renderSection(arg))
    /\ UNCHANGED <<appVars, arg>>

SpecRender == RenderInit /\ [][ApplyRenderSection]_vars

-----------------------------------------------------------------------------
(* Claims *)

Loaded == Render.kind = "Layout"

\* indices of the pages whose route equals the path
Matching(pages, path) ==
    {i \in DOMAIN pages : slugToPath(pages[i].slug) = path}

EventStep == lastEvent'.tick # lastEvent.tick

NavigateStep == EventStep /\ lastEvent'.op = "navigate"

\* C1: with a manifest loaded whose page list is not empty, a current path
\* that is the route of no page makes the composed page the "Page not found"
\* message (which differs from the message for an empty page list).
C1_PageNotFoundSignalled ==
    (Loaded /\ Len(data.pages) > 0 /\ Matching(data.pages, currentPath) = {})
        => /\ Render.children = Message("Page not found")
           /\ Render.children # Message("No pages defined in manifest")

\* C2: with a manifest loaded whose page list is not empty, the page shown
\* is the lowest-indexed page whose route equals the current path, the first
\* page of the list when there is none, and the blocks shown are that page's
\* sections, each rendered, in their stored order.
C2_ActivePageIsFirstMatch ==
    (Loaded /\ Len(data.pages) > 0)
        => LET pages == data.pages
               m == Matching(pages, currentPath)
               active == IF m # {} THEN CHOOSE i \in m : \A j \in m : i <= j
                         ELSE 1
               sections == pages[active].sections
           IN  /\ Render.children.kind = "sections"
               /\ Len(Render.children.blocks) = Len(sections)
               /\ \A k \in DOMAIN sections :
                     Render.children.blocks[k] = renderSection(sections[k])

\* C2 witness: a loaded manifest in which two pages have the current path as
\* their route.
C2_Witness ==
    /\ Loaded
    /\ Cardinality(Matching(data.pages, currentPath)) >= 2

\* C3: a navigate call whose path equals the current path changes neither
\* the session history (entries and position) nor the current path.
C3_NavigateToCurrentPathIsNoOp ==
    [][(NavigateStep /\ lastEvent'.arg = currentPath)
          => (history' = history /\ idx' = idx /\ currentPath' = currentPath)]_vars

\* C3 witness: navigate has returned at its equality check after entries
\* were pushed.
C3_Witness ==
    /\ lastEvent.op = "navigate"
    /\ lastEvent.outcome = "same"
    /\ lastEvent.arg = currentPath
    /\ Len(history) >= 3

\* C4: a navigate call whose path differs from the current path adds exactly
\* one session-history entry, which carries the new path and is the current
\* entry, and makes the new path the current path.
C4_NavigateToNewPathPushesOneEntry ==
    [][(NavigateStep /\ lastEvent'.arg # currentPath)
          => /\ history' = Append(SubSeq(history, 1, idx), lastEvent'.arg)
             /\ idx' = idx + 1
             /\ currentPath' = lastEvent'.arg]_vars

FetchState ==
    IF data # Null THEN "loaded"
    ELSE IF isLoading THEN "loading"
    ELSE IF error # NoError THEN "failed"
    ELSE "uninitialized"

FetchTransitions ==
    {<<"uninitialized", "loading">>, <<"loading", "loaded">>,
     <<"loading", "failed">>}

\* C5: with a manifest URL configured, at most one fetch is ever issued and
\* exactly one has been once the effects have run; the fetch state changes
\* only uninitialized -> loading, loading -> loaded and loading -> failed, so
\* loaded and failed are never left; and once the fetch has started the view
\* is the loading display, the failure message or the loaded layout,
\* according to the fetch state.
C5_FetchLifecycle ==
    /\ [](manifestUrl =>
            /\ fetchCount <= 1
            /\ (mounted <=> fetchCount = 1)
            /\ (fetchCount = 0 => FetchState = "uninitialized")
            /\ (fetchCount > 0 =>
                  /\ FetchState \in {"loading", "loaded", "failed"}
                  /\ (FetchState = "loading" <=> Render.kind = "Loading")
                  /\ (FetchState = "loaded" <=> Render.kind = "Layout")
                  /\ (FetchState = "failed" <=> Render.kind = "Error")))
    /\ [][(manifestUrl /\ FetchState' # FetchState)
             => <<FetchState, FetchState'>> \in FetchTransitions]_vars

\* C5 witness: the fetch has failed for good and a back/forward event was
\* handled after it.
C5_Witness ==
    /\ manifestUrl
    /\ promise = "settled"
    /\ FetchState = "failed"
    /\ lastEvent.op = "popstate"

\* C6: once the promise chain has settled for a response with a non-2xx
\* status or a body that is not JSON, the failure message is set and
\* displayed and no manifest is stored.
C6_BadResponseFails ==
    (promise = "settled" /\ res.kind = "response"
        /\ (res.status \notin 200..299 \/ ~res.body.json))
        => /\ error = FetchFailedMessage
           /\ data = Null
           /\ Render = Plain("Error", FetchFailedMessage)

\* C7: without a manifest URL no fetch is issued and the view is the fixed
\* "Missing VITE_MANIFEST_URL" display.
C7_MissingUrlNeverFetches ==
    ~manifestUrl
        => /\ fetchCount = 0
           /\ promise = "none"
           /\ res = NoResponse
           /\ Render = Plain("MissingUrl", "Missing VITE_MANIFEST_URL")

\* C7 witness: no manifest URL, the effects have run and a back/forward
\* event was handled.
C7_Witness ==
    /\ ~manifestUrl
    /\ mounted
    /\ lastEvent.op = "popstate"

\* C8: slugToPath(s) starts with "/" and does not start with "//"; it is "/"
\* for "", "/" and "home", and for any other slug it is "/" followed by the
\* slug without one leading "/".
C8_SlugToPathSingleLeadingSlash ==
    result.done
        => LET s == arg
               r == result.value
           IN  /\ StartsWithSlash(r)
               /\ ~StartsWithDoubleSlash(r)
               /\ (s \in {<<>>, <<"/">>, <<"h", "o", "m", "e">>} => r = <<"/">>)
               /\ (s \notin {<<>>, <<"/">>, <<"h", "o", "m", "e">>}
                     => r = <<"/">> \o (IF Head(s) = "/" THEN Tail(s) ELSE s))

\* C9: the current path is never empty and always starts with "/".
C9_CurrentPathIsAbsolute ==
    /\ currentPath # <<>>
    /\ Len(currentPath) >= 1
    /\ currentPath[1] = "/"

\* C9 witness: a back/forward event was handled after navigate calls had
\* pushed entries.
C9_Witness ==
    /\ lastEvent.op = "popstate"
    /\ Len(history) >= 3
    /\ currentPath # Root

\* C10: renderSection selects the rule by the exact type string: hero gives
\* the hero rule with absent heading/body as "", text-block and content-block
\* the text rule, image-block the image rule ending in the placeholder, the
\* four generic types the labelled rule showing the type tag, any other type
\* nothing.
C10_DispatchByExactType ==
    result.done
        => LET s == arg
               r == result.value
               shown(tag, opt) ==
                   IF opt.present /\ opt.value # ""
                       THEN <<[tag |-> tag, text |-> opt.value]>> ELSE <<>>
           IN  /\ s.type = "hero" =>
                     /\ r.component = "Hero"
                     /\ r.children =
                          <<[tag |-> "h1",
                             text |-> IF s.heading.present THEN s.heading.value ELSE ""],
                            [tag |-> "p",
                             text |-> IF s.body.present THEN s.body.value ELSE ""]>>
               /\ s.type \in {"text-block", "content-block"} =>
                     /\ r.component = "TextBlock"
                     /\ r.children = shown("h2", s.heading) \o shown("p.pre-line", s.body)
               /\ s.type = "image-block" =>
                     /\ r.component = "ImageBlock"
                     /\ r.children = shown("h2", s.heading) \o shown("p", s.body)
                                       \o <<[tag |-> "div", text |-> "Image placeholder"]>>
               /\ s.type \in {"profile-row", "testimonial", "faq", "contact-form"} =>
                     /\ r.component = "GenericSection"
                     /\ r.children = <<[tag |-> "div.label", text |-> s.type]>>
                                       \o shown("h2", s.heading)
                                       \o shown("p.pre-line", s.body)
               /\ s.type \notin KnownTypes =>
                     /\ r.component = "null"
                     /\ r.children = <<>>

\* C10 witness: a section of a type close to, but not equal to, a known one
\* has been dispatched.
C10_Witness ==
    /\ result.done
    /\ arg.type = "Hero"
    /\ arg.heading.present

====
